---- MODULE Spec2Model ----
(***************************************************************************)
(* The node-edit modal of the JSON graph viewer: NodeModal (Save, Cancel,  *)
(* Edit, typing), its helper applyEditToJson (parse, walk, merge/replace,  *)
(* serialize, publish, re-select), normalizeNodeData, jsonPathToString,    *)
(* and the row projection of ObjectNode.                                   *)
(*                                                                         *)
(* JavaScript values are tagged records.  An object keeps its entries in   *)
(* JavaScript's own enumeration order (canonical array-index keys in       *)
(* ascending order, then the other keys in insertion order).  An array     *)
(* keeps its elements (a hole is Hole) and, apart from them, the named     *)
(* properties that an assignment arr["k"] = v gives it.  JSON text is a    *)
(* sequence of lexical tokens; JSON.parse and JSON.stringify are the       *)
(* grammar over them, so that a text can be invalid and a round trip can   *)
(* lose something.  The indentation JSON.stringify writes is white space   *)
(* between tokens and is not modelled.                                     *)
(*                                                                         *)
(* The module is ECMAScript module code, hence strict: an assignment to a  *)
(* property of a primitive throws TypeError, as does any property access   *)
(* on null.                                                                *)
(***************************************************************************)
EXTENDS Integers, Sequences, FiniteSets, TLC

VARIABLES
  json,            \* useJson: the document text
  contents,        \* useFile: contents
  hasChanges,      \* useFile: hasChanges
  nodes,           \* useGraph: nodes, rebuilt by setJson
  selectedNode,    \* useGraph: selectedNode (nodeData in the modal)
  editing,         \* NodeModal state
  editedContent,   \* NodeModal state: the textarea's text
  error,           \* NodeModal state: Null or the message shown
  effectPending,   \* the effect on [nodeData, opened] is scheduled
  saves            \* history: how many times Save has run

vars == <<json, contents, hasChanges, nodes, selectedNode, editing,
          editedContent, error, effectPending, saves>>

(***************************************************************************)
(* Bounds of the model.                                                    *)
(***************************************************************************)
\* Save runs at most MaxSaves times
MaxSaves == 1
\* the paths have at most MaxPathLen segments
MaxPathLen == 2

(***************************************************************************)
(* JavaScript values.                                                      *)
(***************************************************************************)
Undef == [t |-> "undefined"]
Hole == [t |-> "hole"]
Null == [t |-> "null"]
Num(n) == [t |-> "number", n |-> n]
Str(s) == [t |-> "string", s |-> s]
Bool(b) == [t |-> "boolean", b |-> b]
Obj(ents) == [t |-> "object", ents |-> ents]
Arr(items) == [t |-> "array", items |-> items, props |-> <<>>]
Ent(k, v) == [k |-> k, v |-> v]
EmptyObj == Obj(<<>>)

\* typeof v === "object" && v !== null && !Array.isArray(v)
IsPlainObject(v) == v.t = "object"
IsPrimitive(v) == v.t \in {"number", "string", "boolean"}

\* a path segment: a string (object key) or a number (array index)
S(s) == [k |-> "str", s |-> s]
N(n) == [k |-> "num", n |-> n]

\* ToPropertyKey: the property name a segment is used as
PropKey(seg) == IF seg.k = "num" THEN ToString(seg.n) ELSE seg.s

\* the array index a property name spells, -1 when it spells none: the
\* canonical index strings are the decimal numerals (here the one-digit ones)
Digits == <<"0", "1", "2", "3", "4", "5", "6", "7", "8", "9">>
IndexOf(key) ==
  IF \E i \in 1..Len(Digits) : Digits[i] = key
  THEN (CHOOSE i \in 1..Len(Digits) : Digits[i] = key) - 1
  ELSE -1
IsIndexKey(key) == IndexOf(key) >= 0

\* the position of key among entries, 0 when absent
EntPos(ents, key) ==
  IF \E i \in 1..Len(ents) : ents[i].k = key
  THEN CHOOSE i \in 1..Len(ents) : ents[i].k = key
  ELSE 0

\* where a new own property goes in the enumeration order: an array-index
\* key before every larger index key and every other key, another key last
InsertPos(ents, key) ==
  IF IsIndexKey(key)
  THEN 1 + Cardinality({i \in 1..Len(ents) :
                          IsIndexKey(ents[i].k) /\ IndexOf(ents[i].k) < IndexOf(key)})
  ELSE Len(ents) + 1

\* obj[key] = v on the entries of an ordinary object
PutEnt(ents, key, v) ==
  LET p == EntPos(ents, key) IN
  IF p > 0 THEN [ents EXCEPT ![p] = Ent(key, v)]
  ELSE LET q == InsertPos(ents, key) IN
       SubSeq(ents, 1, q - 1) \o <<Ent(key, v)>> \o SubSeq(ents, q, Len(ents))

\* container[key], for a container that is not null or undefined
GetProp(c, key) ==
  CASE c.t = "object" ->
         LET p == EntPos(c.ents, key) IN IF p > 0 THEN c.ents[p].v ELSE Undef
    [] c.t = "array" ->
         IF IsIndexKey(key)
         THEN LET i == IndexOf(key) IN
              IF i < Len(c.items) /\ c.items[i + 1] # Hole
              THEN c.items[i + 1] ELSE Undef
         ELSE LET p == EntPos(c.props, key) IN
              IF p > 0 THEN c.props[p].v ELSE Undef
    [] c.t = "string" ->
         \* every string of the model has one character
         IF IsIndexKey(key) /\ IndexOf(key) < Len(c.s) THEN c ELSE Undef
    [] OTHER -> Undef

\* whether container[key] = v throws: null has no properties, and in strict
\* code a primitive cannot be given one
SetThrows(c) == c.t \in {"null", "undefined"} \/ IsPrimitive(c)

\* container[key] = v on an object or an array
SetProp(c, key, v) ==
  CASE c.t = "object" -> [c EXCEPT !.ents = PutEnt(c.ents, key, v)]
    [] c.t = "array" ->
         IF IsIndexKey(key)
         THEN LET i == IndexOf(key) IN
              IF i < Len(c.items)
              THEN [c EXCEPT !.items[i + 1] = v]
              ELSE [c EXCEPT !.items =
                      c.items \o [j \in 1..(i - Len(c.items)) |-> Hole] \o <<v>>]
         ELSE [c EXCEPT !.props = PutEnt(c.props, key, v)]

(***************************************************************************)
(* applyEditToJson, lines 69-90: the walk to the parent of the target and  *)
(* the write at the last segment.  The code mutates parsedCurrent in       *)
(* place; here every step returns the container it changed, and the        *)
(* caller writes it back where it came from.  A result is                  *)
(* [threw, val]: val is the container after the step.                      *)
(***************************************************************************)
Threw == [threw |-> TRUE, val |-> Undef]
Done(v) == [threw |-> FALSE, val |-> v]

RECURSIVE PutAll(_, _)
\* the own enumerable properties of `more`, defined in order on `ents`
PutAll(ents, more) ==
  IF more = <<>> THEN ents
  ELSE PutAll(PutEnt(ents, Head(more).k, Head(more).v), Tail(more))

\* { ...target, ...newValue }
SpreadMerge(target, newValue) ==
  Obj(PutAll(PutAll(<<>>, target.ents), newValue.ents))

\* TerminalValue, but an array written over an array is appended to it
TerminalValueConcat(parent, lastSeg, newValue) ==
  LET target == GetProp(parent, PropKey(lastSeg)) IN
  IF IsPlainObject(newValue)
  THEN IF IsPlainObject(target) THEN SpreadMerge(target, newValue) ELSE newValue
  ELSE IF newValue.t = "array" /\ target.t = "array"
  THEN [target EXCEPT !.items = target.items \o newValue.items]
  ELSE newValue

\* lines 77-90: the value written at the last segment
TerminalValue(parent, lastSeg, newValue) ==
  IF IsPlainObject(newValue)
  THEN LET target == GetProp(parent, PropKey(lastSeg)) IN
       IF IsPlainObject(target) THEN SpreadMerge(target, newValue) ELSE newValue
  ELSE newValue

\* lines 77-90 on the parent the walk ended at
Terminal(parent, lastSeg, newValue) ==
  IF SetThrows(parent) THEN Threw
  ELSE Done(SetProp(parent, PropKey(lastSeg),
                    TerminalValue(parent, lastSeg, newValue)))

\* line 73: parent[seg] === undefined, then parent[seg] = {}
WalkStep(parent, seg) ==
  IF parent.t \in {"null", "undefined"} THEN Threw
  ELSE IF GetProp(parent, PropKey(seg)) # Undef THEN Done(parent)
  ELSE IF SetThrows(parent) THEN Threw
  ELSE Done(SetProp(parent, PropKey(seg), EmptyObj))

\* the container c once the work below c[key] has ended with r: the child
\* is the object c[key] refers to, so c sees what was done to it (a
\* one-character string has no child object to change)
WriteBack(c, key, r) ==
  IF r.threw THEN Threw
  ELSE IF IsPrimitive(c) THEN Done(c)
  ELSE Done(SetProp(c, key, r.val))

RECURSIVE Descend(_, _, _, _)
\* line 74, parent = parent[seg], and the rest of the path from there; s is
\* the outcome of line 73
StepInto(s, path, write, newValue) ==
  IF s.threw THEN Threw
  ELSE WriteBack(s.val, PropKey(path[1]),
                 Descend(GetProp(s.val, PropKey(path[1])), Tail(path),
                         write, newValue))

\* lines 70-90 from `parent` along `path` (the segments still to go, the
\* last one included); with write = FALSE the walk alone, lines 70-75
Descend(parent, path, write, newValue) ==
  IF Len(path) = 1
  THEN IF write THEN Terminal(parent, path[1], newValue) ELSE Done(parent)
  ELSE StepInto(WalkStep(parent, path[1]), path, write, newValue)

(***************************************************************************)
(* JSON text: a sequence of tokens.                                        *)
(***************************************************************************)
P(c) == [p |-> c]
Lit(v) == [lit |-> v]
Raw(s) == [raw |-> s]

RECURSIVE Stringify(_), StringifyItems(_), StringifyEnts(_)
\* JSON.stringify(v, null, 2): an array's holes are written as null and
\* its named properties are not written
Stringify(v) ==
  CASE v.t = "object" -> <<P("{")>> \o StringifyEnts(v.ents) \o <<P("}")>>
    [] v.t = "array" -> <<P("[")>> \o StringifyItems(v.items) \o <<P("]")>>
    [] v.t \in {"hole", "undefined"} -> <<Lit(Null)>>
    [] OTHER -> <<Lit(v)>>
StringifyItems(items) ==
  IF items = <<>> THEN <<>>
  ELSE Stringify(Head(items))
       \o (IF Len(items) > 1 THEN <<P(",")>> ELSE <<>>)
       \o StringifyItems(Tail(items))
StringifyEnts(ents) ==
  IF ents = <<>> THEN <<>>
  ELSE <<Lit(Str(Head(ents).k)), P(":")>> \o Stringify(Head(ents).v)
       \o (IF Len(ents) > 1 THEN <<P(",")>> ELSE <<>>)
       \o StringifyEnts(Tail(ents))

Fail == [ok |-> FALSE, val |-> Undef, next |-> 0]
Got(v, n) == [ok |-> TRUE, val |-> v, next |-> n]
TokAt(toks, i) == IF i \in 1..Len(toks) THEN toks[i] ELSE P("eof")
IsLit(tok) == "lit" \in DOMAIN tok
IsStrLit(tok) == IsLit(tok) /\ tok.lit.t = "string"

RECURSIVE ParseValue(_, _), ParseElements(_, _, _), ParseMembers(_, _, _)
\* the JSON grammar from token i: [ok, val, next]
ParseValue(toks, i) ==
  CASE IsLit(TokAt(toks, i)) -> Got(toks[i].lit, i + 1)
    [] TokAt(toks, i) = P("[") ->
         IF TokAt(toks, i + 1) = P("]") THEN Got(Arr(<<>>), i + 2)
         ELSE ParseElements(toks, i + 1, <<>>)
    [] TokAt(toks, i) = P("{") ->
         IF TokAt(toks, i + 1) = P("}") THEN Got(EmptyObj, i + 2)
         ELSE ParseMembers(toks, i + 1, <<>>)
    [] OTHER -> Fail
\* after the element r: a comma and more elements, or the closing bracket
ElementsAfter(toks, acc, r) ==
  IF ~r.ok THEN Fail
  ELSE CASE TokAt(toks, r.next) = P(",") ->
              ParseElements(toks, r.next + 1, Append(acc, r.val))
         [] TokAt(toks, r.next) = P("]") ->
              Got(Arr(Append(acc, r.val)), r.next + 1)
         [] OTHER -> Fail
ParseElements(toks, i, acc) == ElementsAfter(toks, acc, ParseValue(toks, i))
\* after the member value r: a comma and more members, or the closing brace
MembersAfter(toks, ents, key, r) ==
  IF ~r.ok THEN Fail
  ELSE CASE TokAt(toks, r.next) = P(",") ->
              ParseMembers(toks, r.next + 1, PutEnt(ents, key, r.val))
         [] TokAt(toks, r.next) = P("}") ->
              Got(Obj(PutEnt(ents, key, r.val)), r.next + 1)
         [] OTHER -> Fail
ParseMembers(toks, i, ents) ==
  IF ~(IsStrLit(TokAt(toks, i)) /\ TokAt(toks, i + 1) = P(":")) THEN Fail
  ELSE MembersAfter(toks, ents, toks[i].lit.s, ParseValue(toks, i + 2))

\* the parse r of a whole text: nothing may follow the value
WholeText(text, r) ==
  IF r.ok /\ r.next = Len(text) + 1
  THEN [ok |-> TRUE, val |-> r.val] ELSE [ok |-> FALSE, val |-> Undef]

\* JSON.parse(text): [ok, val]; ok = FALSE is the SyntaxError
JSONparse(text) == WholeText(text, ParseValue(text, 1))

(***************************************************************************)
(* The graph store.  Its constructor (setJson -> setGraph) is not part of  *)
(* the modelled files; it is taken from the specification: one node per    *)
(* addressable location of the document (the root, every object key and    *)
(* every array index, recursively), each with its path and one row per     *)
(* immediate child, or a single keyless row for a scalar.  A text that     *)
(* does not parse gives no nodes.                                          *)
(***************************************************************************)
ChildCount(v) ==
  CASE v.t = "object" -> Len(v.ents)
    [] v.t = "array" -> Len(v.items)
    [] OTHER -> 0

\* a row: type, key (Null when there is none), value, childrenCount
Row(key, v) ==
  IF v.t \in {"object", "array"}
  THEN [type |-> v.t, key |-> key, value |-> Num(ChildCount(v)),
        childrenCount |-> Num(ChildCount(v))]
  ELSE [type |-> v.t, key |-> key, value |-> v, childrenCount |-> Undef]

Rows(v) ==
  CASE v.t = "object" ->
         [i \in 1..Len(v.ents) |-> Row(Str(v.ents[i].k), v.ents[i].v)]
    [] v.t = "array" ->
         [i \in 1..Len(v.items) |-> Row(Str(ToString(i - 1)), v.items[i])]
    [] OTHER -> <<Row(Null, v)>>

GraphNode(path, v) == [hasPath |-> TRUE, path |-> path, text |-> Rows(v)]

RECURSIVE GraphOf(_, _), GraphOfEnts(_, _), GraphOfItems(_, _, _)
\* the nodes of the sub-tree v at `path`, the node of v first
GraphOf(path, v) ==
  <<GraphNode(path, v)>> \o
  (CASE v.t = "object" -> GraphOfEnts(path, v.ents)
     [] v.t = "array" -> GraphOfItems(path, v.items, 0)
     [] OTHER -> <<>>)
GraphOfEnts(path, ents) ==
  IF ents = <<>> THEN <<>>
  ELSE GraphOf(Append(path, S(Head(ents).k)), Head(ents).v)
       \o GraphOfEnts(path, Tail(ents))
GraphOfItems(path, items, i) ==
  IF items = <<>> THEN <<>>
  ELSE GraphOf(Append(path, N(i)), Head(items))
       \o GraphOfItems(path, Tail(items), i + 1)

\* useJson.setJson(text): the node set the graph store holds afterwards
setGraph(text) ==
  IF JSONparse(text).ok THEN GraphOf(<<>>, JSONparse(text).val) ELSE <<>>

(***************************************************************************)
(* NodeModal's helpers.                                                    *)
(***************************************************************************)
\* `${value}`: a number, a boolean or null spells its JSON literal; a
\* string spells its own characters, unquoted (no string of the model
\* spells a JSON text)
TemplateText(v) ==
  CASE v.t \in {"number", "boolean", "null"} -> <<Lit(v)>>
    [] v.t = "string" -> <<Raw(v.s)>>
    [] OTHER -> <<Raw(v.t)>>

\* a key that is neither null, undefined nor the empty string
Truthy(key) == key.t = "string" /\ key.s # ""

RECURSIVE ScalarRows(_, _)
\* lines 15-20: obj[row.key] = row.value for the keyed scalar rows
ScalarRows(ents, rows) ==
  IF rows = <<>> THEN ents
  ELSE ScalarRows(
         IF Head(rows).type \notin {"array", "object"} /\ Truthy(Head(rows).key)
         THEN PutEnt(ents, Head(rows).key.s, Head(rows).value) ELSE ents,
         Tail(rows))

\* lines 11-22
normalizeNodeData(nodeRows) ==
  IF Len(nodeRows) = 0 THEN <<P("{"), P("}")>>
  ELSE IF Len(nodeRows) = 1 /\ ~Truthy(nodeRows[1].key)
  THEN TemplateText(nodeRows[1].value)
  ELSE Stringify(Obj(ScalarRows(<<>>, nodeRows)))

\* line 27: a number as it is, a string between double quotes
SegmentText(seg) ==
  IF seg.k = "num" THEN ToString(seg.n) ELSE "\"" \o seg.s \o "\""

RECURSIVE Join(_, _)
\* Array.prototype.join
Join(strs, sep) ==
  IF strs = <<>> THEN ""
  ELSE IF Len(strs) = 1 THEN strs[1]
  ELSE strs[1] \o sep \o Join(Tail(strs), sep)

\* lines 25-29, of a node's path (absent: hasPath = FALSE)
jsonPathToString(node) ==
  IF ~node.hasPath \/ Len(node.path) = 0 THEN "$"
  ELSE "$[" \o Join([i \in 1..Len(node.path) |-> SegmentText(node.path[i])], "][")
       \o "]"

\* getRowText without the default of 0 for an absent child count
getRowTextNoDefault(row) ==
  LET count == IF row.childrenCount.t \in {"undefined", "null"}
               THEN row.childrenCount.t ELSE ToString(row.childrenCount.n)
  IN CASE row.type = "object" -> Str("{" \o count \o " keys}")
       [] row.type = "array" -> Str("[" \o count \o " items]")
       [] OTHER -> row.value

\* ObjectNode.tsx lines 19-23
getRowText(row) ==
  LET count == IF row.childrenCount.t \in {"undefined", "null"}
               THEN 0 ELSE row.childrenCount.n
  IN CASE row.type = "object" -> Str("{" \o ToString(count) \o " keys}")
       [] row.type = "array" -> Str("[" \o ToString(count) \o " items]")
       [] OTHER -> row.value

\* ObjectNode.tsx lines 60-62: the texts of the node's rows, in order
NodeRowTexts(node) == [i \in 1..Len(node.text) |-> getRowText(node.text[i])]

(***************************************************************************)
(* applyEditToJson.                                                        *)
(***************************************************************************)
\* lines 47-54: the parsed current text, {} when it does not parse
ParsedCurrent(current) ==
  IF JSONparse(current).ok THEN JSONparse(current).val ELSE EmptyObj

\* line 56
IsRootPath(node) == ~node.hasPath \/ Len(node.path) = 0

\* RootText, but with the merge of lines 80-83 applied at the root
RootTextMerged(current, newValue) ==
  IF IsPlainObject(ParsedCurrent(current)) /\ IsPlainObject(newValue)
  THEN Stringify(SpreadMerge(ParsedCurrent(current), newValue))
  ELSE Stringify(newValue)

\* line 58: the text published for a root edit
RootText(current, newValue) == Stringify(newValue)

\* lines 70-75: parsedCurrent after the walk alone
WalkedCopy(current, path) == Descend(ParsedCurrent(current), path, FALSE, Undef)

\* lines 70-90: parsedCurrent after the walk and the write
WorkingCopy(current, path, newValue) ==
  Descend(ParsedCurrent(current), path, TRUE, newValue)

\* JSON.stringify(n.path || [])
PathText(node) ==
  Stringify(Arr([i \in 1..(IF node.hasPath THEN Len(node.path) ELSE 0) |->
                   IF node.path[i].k = "num" THEN Num(node.path[i].n)
                   ELSE Str(node.path[i].s)]))

\* the least element of a non-empty set of indices, 0 for the empty set:
\* Array.prototype.find returns the first element that passes
First(indices) ==
  IF indices = {} THEN 0
  ELSE CHOOSE i \in indices : \A j \in indices : i <= j

\* line 64: nodes.find(n => !n.path || n.path.length === 0)
FindRoot(ns) == First({i \in 1..Len(ns) : IsRootPath(ns[i])})

\* line 100: nodes.find(n => JSON.stringify(n.path || []) === JSON.stringify(path || []))
FindByPath(ns, node) ==
  First({i \in 1..Len(ns) : PathText(ns[i]) = PathText(node)})

\* NodesRead, but of the node set read before setJson has run
NodesReadStale(before, rebuilt) == before

\* lines 64 and 99: useGraph.getState().nodes, read after setJson has run
NodesRead(before, rebuilt) == rebuilt

NoMatch == [found |-> FALSE, node |-> Undef]
Match(ns, i) == IF i = 0 THEN NoMatch ELSE [found |-> TRUE, node |-> ns[i]]

\* lines 64 and 100: the lookup of the root branch and of the other branch
Lookup(look, node) ==
  Match(look, IF IsRootPath(node) THEN FindRoot(look) ELSE FindByPath(look, node))

\* lines 59-66 and 93-106: setJson(text) has rebuilt the graph store to
\* `rebuilt`; the node is looked up in the node set read after that
Reselect(text, before, rebuilt, node) ==
  [threw |-> FALSE, text |-> text, nodes |-> rebuilt,
   match |-> Lookup(NodesRead(before, rebuilt), node)]

\* lines 59-60 and 93-96: setContents and setJson of the new text
Publish(text, ns, node) == Reselect(text, ns, setGraph(text), node)

\* lines 92-109 after the walk and the write have ended with w
Written(current, ns, node, w) ==
  IF w.threw
  THEN [threw |-> TRUE, text |-> current, nodes |-> ns, match |-> NoMatch]
  ELSE Publish(Stringify(w.val), ns, node)

\* lines 45-110: what the call leaves behind, given the text of the JSON
\* store, the node set of the graph store, the selected node (for its
\* path) and the parsed edit: [threw, text, nodes, match]
applyEditToJson(current, ns, node, newValue) ==
  IF IsRootPath(node)
  THEN Publish(RootText(current, newValue), ns, node)
  ELSE Written(current, ns, node, WorkingCopy(current, node.path, newValue))

(***************************************************************************)
(* The inputs of the model.                                                *)
(***************************************************************************)
\* path segments: two keys, an index inside the arrays of Docs and one
\* beyond their end
Segs == {S("a"), S("b"), N(0), N(2)}

RECURSIVE SeqsUpTo(_, _)
SeqsUpTo(set, n) ==
  IF n = 0 THEN {<<>>}
  ELSE LET shorter == SeqsUpTo(set, n - 1) IN
       shorter \cup {Append(q, x) : q \in shorter, x \in set}

Paths == SeqsUpTo(Segs, MaxPathLen)

\* the documents the store starts from
Leaves == {Null, Num(1), Str("s"), EmptyObj, Arr(<<>>)}
Inner ==
  {Null, Num(1), EmptyObj, Arr(<<Num(1)>>),
   Obj(<<Ent("a", Num(1)), Ent("b", Num(2))>>)}
MergeExample == Obj(<<Ent("a", Obj(<<Ent("x", Num(1)), Ent("y", Num(2))>>))>>)
RowsExample ==
  Obj(<<Ent("k1", EmptyObj), Ent("k2", Arr(<<Num(1), Num(2), Num(3)>>)),
        Ent("k3", Str("x"))>>)
\* a key that holds the characters "][" between double quotes
QuoteKey == "a\"][\"b"
QuoteExample == Obj(<<Ent(QuoteKey, Num(1))>>)
Docs ==
  Leaves \cup Inner \cup {Obj(<<Ent("a", v)>>) : v \in Inner}
  \cup {Obj(<<Ent("b", Bool(TRUE)), Ent("a", EmptyObj)>>), Arr(<<EmptyObj>>)}
  \cup {MergeExample, RowsExample, QuoteExample}

\* texts that are not JSON: the empty text and an unclosed brace
InvalidTexts == {<<>>, <<P("{")>>}
DocTexts == {Stringify(d) : d \in Docs} \cup InvalidTexts

\* what the user may type into the textarea: JSON values, and a text that
\* is not JSON
EditValues ==
  { Num(5), Null, Arr(<<Num(1), Num(2)>>),
    Obj(<<Ent("y", Num(3)), Ent("z", Num(4))>>) }
EditTexts == {Stringify(v) : v \in EditValues} \cup {<<P("["), Lit(Num(1))>>}

\* the rows of a selected node that the store has since dropped: a
\* container row whose child count is absent and a scalar row
StaleRows ==
  << [type |-> "object", key |-> Str("a"), value |-> Undef, childrenCount |-> Undef],
     [type |-> "number", key |-> Str("b"), value |-> Num(1), childrenCount |-> Undef] >>

Range(f) == {f[i] : i \in DOMAIN f}
NodePaths(ns) == {n.path : n \in Range(ns)}

\* the node the modal is opened on: a node of the graph, or a node of an
\* earlier graph whose path the document no longer has, or a node
\* without a path
Selectable(ns) ==
  Range(ns)
  \cup {[hasPath |-> TRUE, path |-> q, text |-> StaleRows] : q \in Paths \ NodePaths(ns)}
  \cup {[hasPath |-> FALSE, path |-> <<>>, text |-> StaleRows]}

(***************************************************************************)
(* The state machine.                                                      *)
(***************************************************************************)
\* the modal open on a node, after its effect (lines 38-42) has run
Init ==
  /\ json \in DocTexts
  /\ contents = json
  /\ hasChanges = FALSE
  /\ nodes = setGraph(json)
  /\ selectedNode \in Selectable(nodes)
  /\ editing = FALSE
  /\ editedContent = normalizeNodeData(selectedNode.text)
  /\ error = Null
  /\ effectPending = FALSE
  /\ saves = 0

\* line 144
Edit ==
  /\ ~effectPending /\ ~editing
  /\ editing' = TRUE
  /\ UNCHANGED <<json, contents, hasChanges, nodes, selectedNode,
                 editedContent, error, effectPending, saves>>

\* line 137
Type ==
  /\ ~effectPending /\ editing
  /\ \E t \in EditTexts : editedContent' = t
  /\ UNCHANGED <<json, contents, hasChanges, nodes, selectedNode, editing,
                 error, effectPending, saves>>

\* lines 169-173
Cancel ==
  /\ ~effectPending /\ editing
  /\ editedContent' = normalizeNodeData(selectedNode.text)
  /\ editing' = FALSE
  /\ error' = Null
  /\ UNCHANGED <<json, contents, hasChanges, nodes, selectedNode,
                 effectPending, saves>>

\* lines 38-42, run after a render in which nodeData changed
Effect ==
  /\ effectPending
  /\ error' = Null
  /\ editing' = FALSE
  /\ editedContent' = normalizeNodeData(selectedNode.text)
  /\ effectPending' = FALSE
  /\ UNCHANGED <<json, contents, hasChanges, nodes, selectedNode, saves>>

\* lines 154-161: the outcome r of applyEditToJson, a TypeError caught at
\* line 159 or the stores published and the node reselected
Saved(r) ==
  IF r.threw
  THEN /\ error' = Str("TypeError")
       /\ UNCHANGED <<json, contents, hasChanges, nodes, selectedNode,
                      editing, editedContent, effectPending>>
  ELSE /\ contents' = r.text
       /\ hasChanges' = TRUE
       /\ json' = r.text
       /\ nodes' = r.nodes
       /\ selectedNode' = IF r.match.found THEN r.match.node ELSE selectedNode
       /\ effectPending' = r.match.found
       /\ editedContent' =
            IF r.match.found /\ ~IsRootPath(selectedNode)
            THEN normalizeNodeData(r.match.node.text) ELSE editedContent
       /\ editing' = FALSE
       /\ error' = Null

\* lines 152-162, with the call of applyEditToJson
Save ==
  /\ ~effectPending /\ editing /\ saves < MaxSaves
  /\ saves' = saves + 1
  /\ IF ~JSONparse(editedContent).ok
     THEN /\ error' = Str("SyntaxError")
          /\ UNCHANGED <<json, contents, hasChanges, nodes, selectedNode,
                         editing, editedContent, effectPending>>
     ELSE Saved(applyEditToJson(json, nodes, selectedNode,
                                JSONparse(editedContent).val))

Next == Edit \/ Type \/ Cancel \/ Effect \/ Save

Spec == Init /\ [][Next]_vars

(***************************************************************************)
(* Vocabulary of the properties.                                           *)
(***************************************************************************)
\* a step in which the Save handler ran
SaveStep == saves' = saves + 1
\* the textarea holds JSON; EditedValue is what it parses to
ValidEdit == JSONparse(editedContent).ok
EditedValue == JSONparse(editedContent).val
\* the selected node's path, the empty path when it has none
SelectedPath == IF selectedNode.hasPath THEN selectedNode.path ELSE <<>>
NonRoot == Len(SelectedPath) > 0
StoresUnchanged == UNCHANGED <<json, contents, hasChanges, nodes, selectedNode>>

RECURSIVE ValueAt(_, _)
\* doc[p1][p2]...: the value a path reads, Undef where it reads nothing
ValueAt(v, path) ==
  IF path = <<>> THEN v
  ELSE IF v.t \in {"object", "array"}
  THEN ValueAt(GetProp(v, PropKey(Head(path))), Tail(path))
  ELSE Undef

RECURSIVE Addresses(_, _)
\* the path names a location of the document: a string segment a key of
\* an object, a numeric segment an index of an array
Addresses(v, path) ==
  IF path = <<>> THEN TRUE
  ELSE LET seg == Head(path) IN
       CASE v.t = "object" /\ seg.k = "str" /\ EntPos(v.ents, seg.s) > 0 ->
              Addresses(v.ents[EntPos(v.ents, seg.s)].v, Tail(path))
         [] v.t = "array" /\ seg.k = "num" /\ seg.n < Len(v.items) ->
              Addresses(v.items[seg.n + 1], Tail(path))
         [] OTHER -> FALSE

\* existing, with the values of value's entries in place of its own for
\* the keys both have, followed by value's other entries
ShallowMerge(existing, value) ==
  LET kept == [i \in 1..Len(existing.ents) |->
                 LET k == existing.ents[i].k IN
                 IF EntPos(value.ents, k) > 0
                 THEN value.ents[EntPos(value.ents, k)] ELSE existing.ents[i]]
      added == SelectSeq(value.ents, LAMBDA e : EntPos(existing.ents, e.k) = 0)
  IN Obj(kept \o added)

RECURSIVE ArrayLens(_, _)
\* <<path, length>> of every array of the sub-tree v at `path`
ArrayLens(path, v) ==
  CASE v.t = "object" ->
         UNION {ArrayLens(Append(path, S(v.ents[i].k)), v.ents[i].v) :
                  i \in 1..Len(v.ents)}
    [] v.t = "array" ->
         {<<path, Len(v.items)>>}
         \cup UNION {ArrayLens(Append(path, N(i - 1)), v.items[i]) :
                       i \in 1..Len(v.items)}
    [] OTHER -> {}

RECURSIVE Bracketed(_)
\* one bracketed segment per element: ["key"] or [index]
Bracketed(path) ==
  IF path = <<>> THEN ""
  ELSE "[" \o (IF Head(path).k = "num" THEN ToString(Head(path).n)
               ELSE "\"" \o Head(path).s \o "\"") \o "]"
       \o Bracketed(Tail(path))

PathNode(q) == [hasPath |-> TRUE, path |-> q, text |-> <<>>]

(***************************************************************************)
(* C1.  After a Save with a parsed edit V at a non-empty path p, the value *)
(* at p of the published document is the shallow merge of the existing     *)
(* value and V when both are non-null, non-array objects, and V itself     *)
(* otherwise.                                                              *)
(***************************************************************************)
C1_MergeOrReplace ==
  [][(SaveStep /\ ValidEdit /\ NonRoot) =>
       LET existing == ValueAt(ParsedCurrent(json), SelectedPath)
           expected == IF IsPlainObject(EditedValue) /\ IsPlainObject(existing)
                       THEN ShallowMerge(existing, EditedValue) ELSE EditedValue
       IN /\ JSONparse(json').ok
          /\ ValueAt(JSONparse(json').val, SelectedPath) = expected]_vars

(***************************************************************************)
(* C2.  A Save while the edited text or the current document text is not   *)
(* valid JSON is rejected: an error is shown and the file store, the JSON  *)
(* store, the node set and the selection do not change.  The code rejects  *)
(* an invalid edited text, but lines 49-54 swallow the parse failure of    *)
(* the current text: the edit is applied to {} and published, no error.    *)
(***************************************************************************)
C2_InvalidTextRejected ==
  [][(SaveStep /\ (~ValidEdit \/ ~JSONparse(json).ok)) =>
       (error' # Null /\ StoresUnchanged)]_vars

(***************************************************************************)
(* C3.  A Save of a parsed edit never throws, whatever the document holds  *)
(* along the path: the patch completes and a document is published.        *)
(***************************************************************************)
C3_NeverThrows ==
  [][(SaveStep /\ ValidEdit) =>
       (error' = Null /\ hasChanges' /\ JSONparse(json').ok)]_vars

(***************************************************************************)
(* C4.  The walk over the segments before the last leaves every array of   *)
(* the document with the length it had.                                    *)
(***************************************************************************)
C4_WalkKeepsArrays ==
  [][(SaveStep /\ ValidEdit /\ NonRoot) =>
       LET walked == WalkedCopy(json, SelectedPath) IN
       ~walked.threw =>
         ArrayLens(<<>>, ParsedCurrent(json)) \subseteq ArrayLens(<<>>, walked.val)]_vars

(***************************************************************************)
(* C5.  A Save at the empty or absent path publishes exactly the new       *)
(* value to the file store and the JSON store, whatever the document was.  *)
(***************************************************************************)
C5_RootReplaced ==
  [][(SaveStep /\ ValidEdit /\ ~NonRoot) =>
       /\ error' = Null /\ hasChanges' /\ contents' = json'
       /\ JSONparse(json').ok
       /\ JSONparse(json').val = EditedValue]_vars

\* a root Save has published the object {y: 3, z: 4} as the whole document
C5_Witness ==
  /\ saves > 0 /\ hasChanges /\ ~NonRoot
  /\ json = Stringify(Obj(<<Ent("y", Num(3)), Ent("z", Num(4))>>))
  /\ contents = json

(***************************************************************************)
(* C6.  After a successful Save at path p the node set is the one rebuilt  *)
(* from the published text, and the lookup reads it: a node of it has the  *)
(* path p exactly when p names a location of the new document; then it is  *)
(* the only such node and becomes the selection; otherwise the selection   *)
(* stays.                                                                  *)
(***************************************************************************)
C6_ReselectFresh ==
  [][(SaveStep /\ ValidEdit /\ error' = Null) =>
       LET here == {i \in 1..Len(nodes') : nodes'[i].path = SelectedPath} IN
       /\ nodes' = setGraph(json')
       /\ (here # {}) <=> Addresses(JSONparse(json').val, SelectedPath)
       /\ here # {} => /\ Cardinality(here) = 1
                       /\ \E i \in here : selectedNode' = nodes'[i]
       /\ here = {} => selectedNode' = selectedNode]_vars

\* a Save below the root has selected the node of the rebuilt set at its path
C6_Witness ==
  /\ saves > 0 /\ hasChanges /\ effectPending /\ NonRoot
  /\ selectedNode \in Range(nodes)
  /\ nodes = setGraph(json)

(***************************************************************************)
(* C7.  The text a Save below the root publishes parses back to the        *)
(* patched working copy.                                                   *)
(***************************************************************************)
C7_RoundTrip ==
  [][(SaveStep /\ ValidEdit /\ NonRoot) =>
       LET w == WorkingCopy(json, SelectedPath, EditedValue) IN
       ~w.threw => (JSONparse(json').ok /\ JSONparse(json').val = w.val)]_vars

(***************************************************************************)
(* C8.  Applying the edit of a Save once more, to the document that Save   *)
(* left, publishes the same text (the same entries in the same order).     *)
(***************************************************************************)
C8_Idempotent ==
  [][(SaveStep /\ ValidEdit) =>
       LET again == applyEditToJson(json', nodes', selectedNode, EditedValue) IN
       /\ again.text = json'
       /\ error' = Null => ~again.threw]_vars

\* the merge of {y: 3, z: 4} into {a: {x: 1, y: 2}} at ["a"] has been published
C8_Witness ==
  /\ saves > 0 /\ hasChanges
  /\ SelectedPath = <<S("a")>>
  /\ json = Stringify(Obj(<<Ent("a", Obj(<<Ent("x", Num(1)), Ent("y", Num(3)),
                                           Ent("z", Num(4))>>))>>))

(***************************************************************************)
(* C9.  The displayed path is "$" for the empty or absent path and         *)
(* otherwise "$" followed by one bracketed segment per element, strings    *)
(* between double quotes and numbers bare; no other path has the same      *)
(* display.                                                                *)
(***************************************************************************)
C9_PathDisplay ==
  /\ jsonPathToString(selectedNode) = "$" \o Bracketed(SelectedPath)
  /\ \A q \in Paths \cup NodePaths(nodes) :
       q # SelectedPath =>
         jsonPathToString(PathNode(q)) # jsonPathToString(selectedNode)

(***************************************************************************)
(* C10.  A node shows one text per row, in the order of its rows: an       *)
(* object row "{N keys}" and an array row "[N items]", N the row's child   *)
(* count or 0 when it has none, and a scalar row its value.  For the nodes *)
(* of the graph the rows are the immediate children the document has at    *)
(* the node's path (a scalar node has the one row of its value).           *)
(***************************************************************************)
RowShown(row) ==
  LET n == IF row.childrenCount = Undef THEN 0 ELSE row.childrenCount.n IN
  CASE row.type = "object" -> Str("{" \o ToString(n) \o " keys}")
    [] row.type = "array" -> Str("[" \o ToString(n) \o " items]")
    [] OTHER -> row.value

C10_RowProjection ==
  /\ \A n \in Range(nodes) \cup {selectedNode} :
       /\ Len(NodeRowTexts(n)) = Len(n.text)
       /\ \A i \in 1..Len(n.text) : NodeRowTexts(n)[i] = RowShown(n.text[i])
  /\ \A n \in Range(nodes) :
       LET v == ValueAt(JSONparse(json).val, n.path)
           children == CASE v.t = "object" -> [i \in 1..Len(v.ents) |-> v.ents[i].v]
                         [] v.t = "array" -> v.items
                         [] OTHER -> <<v>>
       IN /\ Len(NodeRowTexts(n)) = Len(children)
          /\ \A i \in 1..Len(children) :
               NodeRowTexts(n)[i] =
                 CASE children[i].t = "object" ->
                        Str("{" \o ToString(Len(children[i].ents)) \o " keys}")
                   [] children[i].t = "array" ->
                        Str("[" \o ToString(Len(children[i].items)) \o " items]")
                   [] OTHER -> children[i]

\* the graph holds the node of {k1: {}, k2: [1, 2, 3], k3: "x"}, and the
\* selected node has a container row without a child count
C10_Witness ==
  /\ \E n \in Range(nodes) :
       NodeRowTexts(n) = <<Str("{0 keys}"), Str("[3 items]"), Str("x")>>
  /\ selectedNode.text = StaleRows
  /\ NodeRowTexts(selectedNode) = <<Str("{0 keys}"), Num(1)>>

====
